---- MODULE Spec2Model ----
(***************************************************************************)
(* State-machine model of the session-establishment orchestrator of        *)
(* src/src/App.tsx: the React component App with its handlers              *)
(* handleRoomUrl, start and leave, the collaborators they call             *)
(* (fetch_start_agent, fetch start_bot, daily.join/leave/destroy) and the  *)
(* module-scoped configuration read at load time.                          *)
(*                                                                         *)
(* Strings are sequences of one-character strings; a value of type         *)
(* string | null is None (<<>>) or Some(s) (<<s>>).                        *)
(***************************************************************************)
EXTENDS Integers, Sequences, FiniteSets, TLC

\* ------------------------------------------------------------------------
\* Bounds
\* ------------------------------------------------------------------------
\* number of start() invocations in one run
MaxStarts == 2
\* number of leave() invocations in one run
MaxLeaves == 2

\* ------------------------------------------------------------------------
\* string | null
\* ------------------------------------------------------------------------
None == << >>
Some(s) == << s >>

\* JavaScript truthiness of a string | null value
Truthy(o) == o # None /\ o[1] # << >>

\* JavaScript a || b on string | null values
OrElse(a, b) == IF Truthy(a) THEN a ELSE b

\* ------------------------------------------------------------------------
\* Strings of the model
\* ------------------------------------------------------------------------
EmptyStr == << >>
Http == << "h", "t", "t", "p" >>
SchemeSep == << ":", "/", "/" >>
DailyCo == << ".", "d", "a", "i", "l", "y", ".", "c", "o", "/" >>
Https == Http \o << "s" >> \o SchemeSep

\* https://a.daily.co/r
UrlA == Https \o << "a" >> \o DailyCo \o << "r" >>
\* https://b.daily.co/r
UrlB == Https \o << "b" >> \o DailyCo \o << "r" >>
\* https://a.daily.co/r/  (trailing slash: fails validation)
UrlSlash == UrlA \o << "/" >>

\* values of the room_url query parameter: absent, empty, valid, invalid
QueryValues == { None, Some(EmptyStr), Some(UrlA), Some(UrlSlash) }
\* what the user can type into the room input
UserUrls == { EmptyStr, UrlA, UrlSlash }

StartsWith(s, p) == Len(s) >= Len(p) /\ SubSeq(s, 1, Len(p)) = p
Drop(s, n) == SubSeq(s, n + 1, Len(s))
Contains(s, sub) ==
  \E i \in 1..(Len(s) - Len(sub) + 1) : SubSeq(s, i, i + Len(sub) - 1) = sub
HasChar(s, c) == \E i \in 1..Len(s) : s[i] = c
\* position of the first occurrence of c in s, 0 when there is none
FirstIndex(s, c) ==
  IF HasChar(s, c) THEN CHOOSE i \in 1..Len(s) :
                          s[i] = c /\ \A j \in 1..(i - 1) : s[j] # c
  ELSE 0

\* the pattern without its end anchor: /^(https?:\/\/[^.]+\.daily\.co\/[^/]+)/
RegexTestNoEndAnchor(s) ==
  /\ StartsWith(s, Http)
  /\ LET r1 == Drop(s, Len(Http))
         r2 == IF StartsWith(r1, << "s" >>) THEN Drop(r1, 1) ELSE r1
     IN /\ StartsWith(r2, SchemeSep)
        /\ LET r3 == Drop(r2, Len(SchemeSep))
               dot == FirstIndex(r3, ".")
           IN /\ dot >= 2
              /\ LET r4 == Drop(r3, dot - 1)
                 IN /\ StartsWith(r4, DailyCo)
                    /\ LET r5 == Drop(r4, Len(DailyCo))
                       IN Len(r5) >= 1 /\ r5[1] # "/"

\* /^(https?:\/\/[^.]+\.daily\.co\/[^/]+)$/.test(s)
RegexTest(s) ==
  /\ StartsWith(s, Http)
  /\ LET r1 == Drop(s, Len(Http))
         r2 == IF StartsWith(r1, << "s" >>) THEN Drop(r1, 1) ELSE r1
     IN /\ StartsWith(r2, SchemeSep)
        /\ LET r3 == Drop(r2, Len(SchemeSep))
               dot == FirstIndex(r3, ".")
           IN /\ dot >= 2
              /\ LET r4 == Drop(r3, dot - 1)
                 IN /\ StartsWith(r4, DailyCo)
                    /\ LET r5 == Drop(r4, Len(DailyCo))
                       IN Len(r5) >= 1 /\ ~HasChar(r5, "/")

\* checkRoomUrl(url: string | null)
checkRoomUrl(url) == Truthy(url) /\ RegexTest(url[1])

\* `${v}` for a string | null value
TemplateText(v) == IF v = None THEN << "n", "u", "l", "l" >> ELSE v[1]

UnableToJoin ==
  << "U", "n", "a", "b", "l", "e", " ", "t", "o", " ", "j", "o", "i", "n",
     " ", "r", "o", "o", "m", ":", " ", "'" >>

CapacityMessage == "We are currently at capacity for this demo. Please try again later."

\* ------------------------------------------------------------------------
\* Outcomes of the collaborators' calls
\* ------------------------------------------------------------------------
\* result objects of the provisioning backend: a room URL with a token, and
\* another room URL with an empty token
ResultValues ==
  { [url |-> UrlA, token |-> << "t" >>], [url |-> UrlB, token |-> EmptyStr] }

\* JSON bodies fetch_start_agent can resolve to: an empty body (None), a
\* body with an error field, a body with neither error nor result, and a
\* body with result.url and result.token (with or without an error field)
Bodies ==
  { None,
    Some([error |-> TRUE, result |-> None]),
    Some([error |-> FALSE, result |-> None]) }
  \cup { Some([error |-> e, result |-> Some(r)]) :
           e \in BOOLEAN, r \in ResultValues }

\* how `await fetch_start_agent(...)` settles: it throws, or resolves to a body
CreateOutcomes ==
  { [threw |-> TRUE, data |-> None] }
  \cup { [threw |-> FALSE, data |-> d] : d \in Bodies }

\* ------------------------------------------------------------------------
\* State
\* ------------------------------------------------------------------------
VARIABLES
  showConfigOptions,   \* import.meta.env.VITE_SHOW_CONFIG is set
  serverUrl,           \* import.meta.env.VITE_SERVER_URL is set
  manualRoomEntry,     \* import.meta.env.VITE_MANUAL_ROOM_ENTRY is set
  roomQs,              \* the room_url query parameter, string | null
  daily,               \* useDaily() returns a call object (not null)
  state,               \* useState<State>
  error,               \* useState<string | null>
  startAudioOff,       \* useState<boolean>
  roomUrl,             \* useState<string | null>
  roomError,           \* useState<boolean>
  capacityError,       \* useState<string>
  nStarts,             \* number of start() invocations so far
  starts,              \* the start() invocations, 1..MaxStarts
  nLeaves,             \* number of leave() invocations so far
  leaves,              \* the leave() invocations, 1..MaxLeaves
  candidate,           \* the argument of a checkRoomUrl call under test
  valid                \* its result, None before the call

env == << showConfigOptions, serverUrl, manualRoomEntry, roomQs,
         candidate, valid >>
hooks == << state, error, startAudioOff, roomUrl, roomError, capacityError >>
vars == << showConfigOptions, serverUrl, manualRoomEntry, roomQs, daily,
           state, error, startAudioOff, roomUrl, roomError, capacityError,
           nStarts, starts, nLeaves, leaves, candidate, valid >>

State ==
  { "idle", "configuring", "requesting_agent", "connecting", "connected",
    "started", "finished", "error" }

\* const autoRoomCreation = import.meta.env.VITE_MANUAL_ROOM_ENTRY ? false : true
autoRoomCreation == ~manualRoomEntry

\* a start state that is the landing step whatever the configuration
StartStateAlwaysIdle == "idle"

\* showConfigOptions ? "idle" : "configuring"
StartState == IF showConfigOptions THEN "idle" ELSE "configuring"

\* a validation-error flag that starts set when the query URL is invalid
RoomErrorInitInvalid == Truthy(roomQs) /\ ~checkRoomUrl(roomQs)

\* (roomQs && checkRoomUrl(roomQs)) || false
RoomErrorInit == Truthy(roomQs) /\ checkRoomUrl(roomQs)

\* a start() invocation that has not happened yet
NoStart ==
  [ pc |-> "none", roomUrl |-> None, startAudioOff |-> FALSE,
    created |-> None, bot |-> "none", join |-> None ]

\* a start() invocation that has returned: its locals are gone, the start_bot
\* request it may have fired is still under way
Returned(me, how) == [ NoStart EXCEPT !.pc = how, !.bot = me.bot ]

\* a leave() invocation that has not happened yet
NoLeave == [ pc |-> "none", leaveCalls |-> 0, destroyCalls |-> 0 ]

Init ==
  /\ showConfigOptions \in BOOLEAN
  /\ serverUrl \in BOOLEAN
  /\ manualRoomEntry \in BOOLEAN
  /\ roomQs \in QueryValues
  /\ daily \in BOOLEAN
  /\ state = StartState
  /\ error = None
  /\ startAudioOff = FALSE
  /\ roomUrl = OrElse(roomQs, None)
  /\ roomError = RoomErrorInit
  /\ capacityError = ""
  /\ nStarts = 0
  /\ starts = [ i \in 1..MaxStarts |-> NoStart ]
  /\ nLeaves = 0
  /\ leaves = [ k \in 1..MaxLeaves |-> NoLeave ]
  /\ candidate = None
  /\ valid = None

\* ------------------------------------------------------------------------
\* The landing step (state idle)
\* ------------------------------------------------------------------------
\* NextDisabled with the validation-error flag read the other way round
NextDisabledFlagFlipped ==
  (Truthy(roomQs) /\ roomError) \/ (autoRoomCreation /\ ~serverUrl)

\* NextDisabled without the check for a missing backend
NextDisabledNoBackendCheck == Truthy(roomQs) /\ ~roomError

\* disabled={!!((roomQs && !roomError) || (autoRoomCreation && !serverUrl))}
NextDisabled ==
  (Truthy(roomQs) /\ ~roomError) \/ (autoRoomCreation /\ ~serverUrl)

\* ProceedGuard that accepts any non-empty candidate without validating it
ProceedGuardNoValidation == (autoRoomCreation /\ serverUrl) \/ Truthy(roomUrl)

\* (autoRoomCreation && serverUrl) || checkRoomUrl(roomUrl)
ProceedGuard == (autoRoomCreation /\ serverUrl) \/ checkRoomUrl(roomUrl)

\* the Next button's onClick; a disabled button delivers no click
handleRoomUrl ==
  /\ state = "idle"
  /\ ~NextDisabled
  /\ IF ProceedGuard
       THEN roomError' = FALSE /\ state' = "configuring"
       ELSE roomError' = TRUE /\ state' = state
  /\ UNCHANGED << env, daily, error, startAudioOff, roomUrl, capacityError,
                  nStarts, starts, nLeaves, leaves >>

\* RoomSetup's handleCheckRoomUrl={(url) => setRoomUrl(url)}
handleCheckRoomUrl(url) ==
  /\ state = "idle"
  /\ roomUrl' = Some(url)
  /\ UNCHANGED << env, daily, state, error, startAudioOff, roomError,
                  capacityError, nStarts, starts, nLeaves, leaves >>

\* ------------------------------------------------------------------------
\* The device-configuration step (state neither idle, error nor connected)
\* ------------------------------------------------------------------------
\* the render reaches the Configure card: the state is not error, not
\* connected and not idle
ConfigureShown == state \notin { "error", "connected", "idle" }

\* Configure's handleStartAudioOff={() => setStartAudioOff(!startAudioOff)}
handleStartAudioOff ==
  /\ ConfigureShown
  /\ startAudioOff' = ~startAudioOff
  /\ UNCHANGED << env, daily, state, error, roomUrl, roomError,
                  capacityError, nStarts, starts, nLeaves, leaves >>

\* useDaily() starts returning the call object
DailyReady ==
  /\ ~daily
  /\ daily' = TRUE
  /\ UNCHANGED << env, hooks, nStarts, starts, nLeaves, leaves >>

\* ------------------------------------------------------------------------
\* start()
\* ------------------------------------------------------------------------
\* data?.result?.url, for data undefined, null or a body
DataResultUrl(data) ==
  IF data = None THEN None
  ELSE IF data[1].result = None THEN None
  ELSE Some(data[1].result[1].url)

\* data?.result?.token
DataResultToken(data) ==
  IF data = None THEN None
  ELSE IF data[1].result = None THEN None
  ELSE Some(data[1].result[1].token)

\* data?.room_url: no body of the provisioning API has a room_url field
DataRoomUrl(data) == None

\* ProvisionOk that does not look at the error field of the body
ProvisionOkIgnoringError(resp) ==
  /\ ~resp.threw
  /\ resp.data # None
  /\ resp.data[1].result # None

\* ProvisionOk that reads the result with optional chaining: a body without
\* result does not throw
ProvisionOkNoResultCheck(resp) ==
  /\ ~resp.threw
  /\ resp.data # None
  /\ ~resp.data[1].error

\* the try block of start() runs to its end: nothing was thrown, the body
\* passes `data && !data.error`, and reading data.result.url does not throw
ProvisionOk(resp) ==
  /\ ~resp.threw
  /\ resp.data # None
  /\ ~resp.data[1].error
  /\ resp.data[1].result # None

\* JoinUrl that prefers the user's room URL: roomUrl || data?.result?.url
JoinUrlRoomFirst(data, url) == OrElse(url, DataResultUrl(data))

\* url: data?.result?.url || roomUrl
JoinUrl(data, url) == OrElse(DataResultUrl(data), url)

\* token: data?.result?.token || ""
JoinToken(data) == OrElse(DataResultToken(data), Some(EmptyStr))[1]

\* daily.join({ url, token, videoSource: false, startAudioOff })
JoinArgs(data, url, audioOff) ==
  [ url |-> JoinUrl(data, url), token |-> JoinToken(data),
    videoSource |-> FALSE, startAudioOff |-> audioOff ]

\* `Unable to join room: '${data?.room_url || roomUrl}'`
JoinErrorMessage(data, url) ==
  UnableToJoin \o TemplateText(OrElse(DataRoomUrl(data), url)) \o << "'" >>

\* if (!daily || (!roomUrl && !autoRoomCreation)) return
StartReturnsEarly == ~daily \/ (~Truthy(roomUrl) /\ ~autoRoomCreation)

\* a Start button that is disabled only while the join is outstanding
StartDisabledOnlyConnecting == state = "connecting"

\* disabled={state !== "configuring"}
StartDisabled == state # "configuring"

\* a start() that clears the capacity message before it does anything else
StartClearingCapacity ==
  /\ ConfigureShown
  /\ ~StartDisabled
  /\ nStarts < MaxStarts
  /\ nStarts' = nStarts + 1
  /\ LET i == nStarts + 1
         me == [ NoStart EXCEPT !.roomUrl = roomUrl,
                                !.startAudioOff = startAudioOff ]
     IN IF StartReturnsEarly
          THEN /\ starts' = [ starts EXCEPT ![i] = Returned(me, "returned") ]
               /\ state' = state
        ELSE IF serverUrl
          THEN /\ starts' = [ starts EXCEPT ![i] = [ me EXCEPT !.pc = "create_room" ] ]
               /\ state' = "requesting_agent"
        ELSE /\ starts' = [ starts EXCEPT ![i] =
                 [ me EXCEPT !.pc = "join",
                             !.join = Some(JoinArgs(None, roomUrl, startAudioOff)) ] ]
             /\ state' = "connecting"
  /\ capacityError' = ""
  /\ UNCHANGED << env, daily, error, startAudioOff, roomUrl, roomError,
                  nLeaves, leaves >>

\* The Start button's onClick (disabled={state !== "configuring"}), up to the
\* first await or return.  The invocation keeps the roomUrl and
\* startAudioOff of the render in which the button was clicked.
Start ==
  /\ ConfigureShown
  /\ ~StartDisabled
  /\ nStarts < MaxStarts
  /\ nStarts' = nStarts + 1
  /\ LET i == nStarts + 1
         me == [ NoStart EXCEPT !.roomUrl = roomUrl,
                                !.startAudioOff = startAudioOff ]
     IN IF StartReturnsEarly
          THEN /\ starts' = [ starts EXCEPT ![i] = Returned(me, "returned") ]
               /\ state' = state
        ELSE IF serverUrl
          THEN /\ starts' = [ starts EXCEPT ![i] = [ me EXCEPT !.pc = "create_room" ] ]
               /\ state' = "requesting_agent"
        ELSE /\ starts' = [ starts EXCEPT ![i] =
                 [ me EXCEPT !.pc = "join",
                             !.join = Some(JoinArgs(None, roomUrl, startAudioOff)) ] ]
             /\ state' = "connecting"
  /\ UNCHANGED << env, daily, error, startAudioOff, roomUrl, roomError,
                  capacityError, nLeaves, leaves >>

\* `await fetch_start_agent(...)` of invocation i settles with resp
CreateRoomSettles(i, resp) ==
  /\ starts[i].pc = "create_room"
  /\ IF ProvisionOk(resp)
       THEN /\ starts' = [ starts EXCEPT ![i] =
                 [ @ EXCEPT !.pc = "join",
                            !.created = Some(resp),
                            !.bot = "pending",
                            !.join = Some(JoinArgs(resp.data,
                                                   starts[i].roomUrl,
                                                   starts[i].startAudioOff)) ] ]
            /\ state' = "connecting"
            /\ capacityError' = capacityError
       ELSE /\ starts' = [ starts EXCEPT ![i] = Returned(@, "capacity") ]
            /\ capacityError' = CapacityMessage
            /\ state' = "configuring"
  /\ UNCHANGED << env, daily, error, startAudioOff, roomUrl, roomError,
                  nStarts, nLeaves, leaves >>

\* a start_bot settlement whose catch handler sends the user back to retry
StartBotSettlesRetry(i, ok) ==
  /\ starts[i].bot = "pending"
  /\ starts' = [ starts EXCEPT ![i].bot = IF ok THEN "ok" ELSE "failed" ]
  /\ state' = IF ok THEN state ELSE "configuring"
  /\ UNCHANGED << env, daily, error, startAudioOff, roomUrl, roomError,
                  capacityError, nStarts, nLeaves, leaves >>

\* a start_bot settlement whose catch handler reports the failure to the user
StartBotSettlesSurfacing(i, ok) ==
  /\ starts[i].bot = "pending"
  /\ starts' = [ starts EXCEPT ![i].bot = IF ok THEN "ok" ELSE "failed" ]
  /\ capacityError' = IF ok THEN capacityError ELSE CapacityMessage
  /\ UNCHANGED << env, daily, state, error, startAudioOff, roomUrl, roomError,
                  nStarts, nLeaves, leaves >>

\* the fetch of start_bot settles; a rejection is only logged
StartBotSettles(i, ok) ==
  /\ starts[i].bot = "pending"
  /\ starts' = [ starts EXCEPT ![i].bot = IF ok THEN "ok" ELSE "failed" ]
  /\ UNCHANGED << env, daily, hooks, nStarts, nLeaves, leaves >>

\* a join settlement that forgets setState("connected")
JoinSettlesNoConnected(i, ok) ==
  /\ starts[i].pc = "join"
  /\ IF ok
       THEN /\ starts' = [ starts EXCEPT ![i] = Returned(@, "connected") ]
            /\ state' = state
            /\ error' = error
       ELSE /\ starts' = [ starts EXCEPT ![i] = Returned(@, "error") ]
            /\ error' = Some(JoinErrorMessage(
                               IF starts[i].created = None THEN None
                               ELSE starts[i].created[1].data,
                               starts[i].roomUrl))
            /\ state' = "error"
  /\ UNCHANGED << env, daily, startAudioOff, roomUrl, roomError,
                  capacityError, nStarts, nLeaves, leaves >>

\* `await daily.join(...)` of invocation i settles
JoinSettles(i, ok) ==
  /\ starts[i].pc = "join"
  /\ IF ok
       THEN /\ starts' = [ starts EXCEPT ![i] = Returned(@, "connected") ]
            /\ state' = "connected"
            /\ error' = error
       ELSE /\ starts' = [ starts EXCEPT ![i] = Returned(@, "error") ]
            /\ error' = Some(JoinErrorMessage(
                               IF starts[i].created = None THEN None
                               ELSE starts[i].created[1].data,
                               starts[i].roomUrl))
            /\ state' = "error"
  /\ UNCHANGED << env, daily, startAudioOff, roomUrl, roomError,
                  capacityError, nStarts, nLeaves, leaves >>

\* ------------------------------------------------------------------------
\* leave()
\* ------------------------------------------------------------------------
\* the Session view offers its leave control while no leave() is outstanding
SessionLeaveEnabled ==
  \A k \in 1..MaxLeaves : leaves[k].pc \notin { "leave", "destroy" }

\* Session's onLeave={() => leave()}, up to `await daily?.leave()`
Leave ==
  /\ state = "connected"
  /\ SessionLeaveEnabled
  /\ nLeaves < MaxLeaves
  /\ nLeaves' = nLeaves + 1
  /\ IF daily
       THEN /\ leaves' = [ leaves EXCEPT ![nLeaves + 1] =
                 [ pc |-> "leave", leaveCalls |-> 1, destroyCalls |-> 0 ] ]
            /\ state' = state
       ELSE /\ leaves' = [ leaves EXCEPT ![nLeaves + 1].pc = "done" ]
            /\ state' = StartState
  /\ UNCHANGED << env, daily, error, startAudioOff, roomUrl, roomError,
                  capacityError, nStarts, starts >>

\* `await daily?.leave()` settles: on resolve destroy() is called, on reject
\* the exception leaves the async function
LeaveSettles(k, ok) ==
  /\ leaves[k].pc = "leave"
  /\ leaves' = [ leaves EXCEPT ![k] =
       IF ok THEN [ @ EXCEPT !.pc = "destroy",
                             !.destroyCalls = @ + 1 ]
       ELSE [ @ EXCEPT !.pc = "thrown" ] ]
  /\ UNCHANGED << env, daily, hooks, nStarts, starts, nLeaves >>

\* `await daily?.destroy()` settles: on resolve setState(start state)
DestroySettles(k, ok) ==
  /\ leaves[k].pc = "destroy"
  /\ IF ok
       THEN /\ leaves' = [ leaves EXCEPT ![k].pc = "done" ]
            /\ state' = StartState
       ELSE /\ leaves' = [ leaves EXCEPT ![k].pc = "thrown" ]
            /\ state' = state
  /\ UNCHANGED << env, daily, error, startAudioOff, roomUrl, roomError,
                  capacityError, nStarts, starts, nLeaves >>

\* ------------------------------------------------------------------------
\* Specification
\* ------------------------------------------------------------------------
Next ==
  \/ handleRoomUrl
  \/ \E url \in UserUrls : handleCheckRoomUrl(url)
  \/ handleStartAudioOff
  \/ DailyReady
  \/ Start
  \/ \E i \in 1..MaxStarts, resp \in CreateOutcomes : CreateRoomSettles(i, resp)
  \/ \E i \in 1..MaxStarts, ok \in BOOLEAN : StartBotSettles(i, ok)
  \/ \E i \in 1..MaxStarts, ok \in BOOLEAN : JoinSettles(i, ok)
  \/ Leave
  \/ \E k \in 1..MaxLeaves, ok \in BOOLEAN : LeaveSettles(k, ok)
  \/ \E k \in 1..MaxLeaves, ok \in BOOLEAN : DestroySettles(k, ok)

Spec == Init /\ [][Next]_vars

\* Every issued create-room call and every issued join call settles.
FairSpec ==
  /\ Spec
  /\ WF_vars(\E i \in 1..MaxStarts, resp \in CreateOutcomes :
                CreateRoomSettles(i, resp))
  /\ WF_vars(\E i \in 1..MaxStarts, ok \in BOOLEAN : JoinSettles(i, ok))

\* ------------------------------------------------------------------------
\* checkRoomUrl on its own
\* ------------------------------------------------------------------------
\* candidates: null, and every string made of a protocol part, a subdomain
\* part, a domain part and a path part from the sets below
ProtocolParts ==
  { Https, Http \o SchemeSep, << "h", "t", "t", "p", "s", ":", "/" >>, EmptyStr }
SubdomainParts ==
  { << "a" >>, EmptyStr, << "a", ".", "b" >>, << "a", "/", "b" >> }
DomainParts ==
  { DailyCo,
    << "d", "a", "i", "l", "y", ".", "c", "o", "/" >>,
    << ".", "d", "a", "i", "l", "y", ".", "c", "o", "m", "/" >> }
PathParts ==
  { << "r" >>, EmptyStr, << "r", "/" >>, << "r", "/", "s" >>, << "r", "?" >> }
Candidates ==
  { None } \cup
  { Some(p \o l \o d \o x) :
      p \in ProtocolParts, l \in SubdomainParts, d \in DomainParts,
      x \in PathParts }

\* the orchestrator at rest, a candidate chosen, checkRoomUrl not yet called
ValidateInit ==
  /\ showConfigOptions = TRUE
  /\ serverUrl = FALSE
  /\ manualRoomEntry = TRUE
  /\ roomQs = None
  /\ daily = FALSE
  /\ state = StartState
  /\ error = None
  /\ startAudioOff = FALSE
  /\ roomUrl = OrElse(roomQs, None)
  /\ roomError = RoomErrorInit
  /\ capacityError = ""
  /\ nStarts = 0
  /\ starts = [ i \in 1..MaxStarts |-> NoStart ]
  /\ nLeaves = 0
  /\ leaves = [ k \in 1..MaxLeaves |-> NoLeave ]
  /\ candidate \in Candidates
  /\ valid = None

\* one call checkRoomUrl(candidate)
Validate ==
  /\ valid = None
  /\ valid' = Some(checkRoomUrl(candidate))
  /\ UNCHANGED << showConfigOptions, serverUrl, manualRoomEntry, roomQs,
                  candidate, daily, hooks, nStarts, starts, nLeaves, leaves >>

ValidateNext == Validate

ValidateSpec == ValidateInit /\ [][ValidateNext]_vars

TypeOK ==
  /\ state \in State
  /\ nStarts \in 0..MaxStarts
  /\ nLeaves \in 0..MaxLeaves

\* ------------------------------------------------------------------------
\* Properties
\* ------------------------------------------------------------------------
Starts == 1..MaxStarts
Leaves == 1..MaxLeaves

\* C1: whenever start() has issued join, the url argument of that join call
\* is a non-null, non-empty room URL.
C1_JoinUrlNeverNull ==
  \A i \in Starts : starts[i].pc = "join" => Truthy(starts[i].join[1].url)

\* a create-room outcome that is a success response with result.url and
\* result.token: a body without an error field and with a result
SuccessResponse(resp) ==
  /\ ~resp.threw
  /\ resp.data # None
  /\ ~resp.data[1].error
  /\ resp.data[1].result # None

\* C2: when the create-room call settles with a success response carrying
\* result.url and result.token, the state goes from requesting_agent to
\* connecting and the join call of that invocation is issued with exactly
\* that url and that token, whatever room URL the user or the query string
\* had supplied.
C2_JoinUsesProvisionedRoom ==
  [][ \A i \in Starts, resp \in CreateOutcomes :
        (CreateRoomSettles(i, resp) /\ SuccessResponse(resp)) =>
          /\ state = "requesting_agent"
          /\ state' = "connecting"
          /\ starts'[i].pc = "join"
          /\ starts'[i].join # None
          /\ starts'[i].join[1].url = Some(resp.data[1].result[1].url)
          /\ starts'[i].join[1].token = resp.data[1].result[1].token ]_vars

\* C2 witness: a join is outstanding for a provisioned room while the user's
\* own room URL is a different, non-empty one.
C2_Witness ==
  \E i \in Starts :
    /\ starts[i].pc = "join"
    /\ state = "connecting"
    /\ starts[i].created # None
    /\ Truthy(starts[i].roomUrl)
    /\ starts[i].roomUrl # starts[i].join[1].url
    /\ starts[i].join[1].url = Some(starts[i].created[1].data[1].result[1].url)

\* a create-room outcome that is a failure: a thrown transport error, an
\* empty body, a body with an error field, or a body without a result
FailureResponse(resp) ==
  \/ resp.threw
  \/ resp.data = None
  \/ resp.data[1].error
  \/ resp.data[1].result = None

\* C3: when the create-room call settles as a failure, the state goes from
\* requesting_agent to configuring, the capacity message is non-empty, and
\* that invocation never reaches connecting and never issues a join or a
\* start-bot call: it has returned, and a returned invocation does nothing.
C3_ProvisioningFailure ==
  [][ /\ \A i \in Starts, resp \in CreateOutcomes :
           (CreateRoomSettles(i, resp) /\ FailureResponse(resp)) =>
             /\ state = "requesting_agent"
             /\ state' = "configuring"
             /\ capacityError' # ""
             /\ starts'[i].pc = "capacity"
             /\ starts'[i].join = None
             /\ starts'[i].bot = "none"
      /\ \A i \in Starts :
           starts[i].pc = "capacity" => starts'[i] = starts[i] ]_vars

\* C3 witness: an invocation has ended in the capacity failure and the state
\* is back at configuring with the message set.
C3_Witness ==
  \E i \in Starts :
    /\ starts[i].pc = "capacity"
    /\ state = "configuring"
    /\ capacityError # ""

\* C4: if the join call rejects, the state goes from connecting to error and
\* the stored error message contains the room URL that was passed to that
\* join call.
C4_ErrorNamesJoinedRoom ==
  [][ \A i \in Starts :
        (starts[i].pc = "join" /\ starts'[i].pc = "error") =>
          /\ state = "connecting"
          /\ state' = "error"
          /\ error' # None
          /\ Contains(error'[1], TemplateText(starts[i].join[1].url)) ]_vars

\* C5: once the calls of a leave() invocation have settled (resolved or
\* rejected) and the invocation is over, the state is the start state: idle
\* when showConfigOptions is set and configuring otherwise.
C5_LeaveReachesStartState ==
  [][ \A k \in Leaves :
        ( /\ leaves[k].pc \in { "leave", "destroy" }
          /\ leaves'[k].pc \in { "done", "thrown" } ) =>
          state' = (IF showConfigOptions THEN "idle" ELSE "configuring") ]_vars

\* C6: every leave() invocation that is over has called the join
\* collaborator's leave exactly once and its destroy exactly once.
C6_LeaveAndDestroyOnce ==
  \A k \in Leaves :
    leaves[k].pc \in { "done", "thrown" } =>
      leaves[k].leaveCalls = 1 /\ leaves[k].destroyCalls = 1

\* C7: if auto room creation is available (manual entry not forced and a
\* backend configured), the proceed control shown in state idle is enabled.
C7_AutoCreationEnablesProceed ==
  (state = "idle" /\ ~manualRoomEntry /\ serverUrl) => ~NextDisabled

\* C8 as stated: if autoRoomCreation is false and the candidate room URL is
\* null or fails validation, the proceed control shown in idle is disabled.
C8_NoCandidateDisablesProceed ==
  (state = "idle" /\ manualRoomEntry /\ ~checkRoomUrl(roomUrl)) => NextDisabled

\* C8 amended: if autoRoomCreation is false and the candidate room URL is
\* null or fails validation, the proceed control shown in idle is disabled
\* when the query parameter supplied a room URL that fails validation, and
\* enabled when the query parameter supplied no room URL.
C8_Amended ==
  (state = "idle" /\ manualRoomEntry /\ ~checkRoomUrl(roomUrl)) =>
    /\ (Truthy(roomQs) /\ ~checkRoomUrl(roomQs)) => NextDisabled
    /\ ~Truthy(roomQs) => ~NextDisabled

\* C8 witness: manual entry forced, the query URL fails validation, the user
\* has typed another invalid candidate, and the control is disabled.
C8_Witness ==
  /\ state = "idle"
  /\ manualRoomEntry
  /\ roomQs = Some(UrlSlash)
  /\ roomUrl = Some(EmptyStr)
  /\ NextDisabled

\* C9: with autoRoomCreation false and a candidate that is null or fails
\* validation, the state stays idle and triggering the proceed action sets
\* the validation-error flag; the state moves from idle to configuring only
\* when auto creation with a backend is available or the candidate
\* validates, and then the validation-error flag is cleared.
C9_ProceedValidates ==
  [][ /\ (state = "idle" /\ manualRoomEntry /\ ~checkRoomUrl(roomUrl)) =>
           (state' = "idle" /\ (handleRoomUrl => roomError'))
      /\ (state = "idle" /\ state' = "configuring") =>
           /\ (~manualRoomEntry /\ serverUrl) \/ checkRoomUrl(roomUrl)
           /\ ~roomError' ]_vars

\* C9 witness: no query URL, manual entry forced, the user typed an invalid
\* candidate and triggered the proceed action: the flag is set, state idle.
C9_Witness ==
  /\ state = "idle"
  /\ manualRoomEntry
  /\ roomQs = None
  /\ roomUrl = Some(UrlSlash)
  /\ roomError

\* C10 as stated: whenever a room URL was pre-supplied through the query
\* parameter and no backend is configured, the proceed control shown in idle
\* is disabled.
C10_QueryUrlWithoutBackendDisables ==
  (state = "idle" /\ Truthy(roomQs) /\ ~serverUrl) => NextDisabled

\* C10 amended: whenever a room URL was pre-supplied through the query
\* parameter and no backend is configured, the proceed control shown in idle
\* is disabled if manual room entry is not forced or the pre-supplied URL
\* fails validation; with manual room entry forced and a validating
\* pre-supplied URL it is enabled as long as no session has been left.
C10_Amended ==
  (state = "idle" /\ Truthy(roomQs) /\ ~serverUrl) =>
    /\ (~manualRoomEntry \/ ~checkRoomUrl(roomQs)) => NextDisabled
    /\ (manualRoomEntry /\ checkRoomUrl(roomQs) /\ nLeaves = 0) => ~NextDisabled

\* C10 witness: no backend, manual entry forced, a validating query URL, the
\* user has replaced the candidate and triggered the proceed action in vain;
\* the control is still enabled.
C10_Witness ==
  /\ state = "idle"
  /\ ~serverUrl
  /\ manualRoomEntry
  /\ roomQs = Some(UrlA)
  /\ roomUrl = Some(UrlSlash)
  /\ roomError
  /\ ~NextDisabled

\* the calls a start() invocation has outstanding or has made: none issued
\* between two states when its position and its start_bot request are as
\* they were (a pending start_bot request may settle)
NoCallIssued(i) ==
  /\ starts'[i].pc = starts[i].pc
  /\ starts'[i].join = starts[i].join
  /\ starts'[i].bot = starts[i].bot \/ starts[i].bot = "pending"

\* C11: once the state is error it stays error: no user action and no
\* settling call changes the state afterwards, and no further create-room,
\* start-bot or join call is issued.
C11_ErrorIsTerminal ==
  [][ state = "error" =>
        /\ state' = "error"
        /\ error' = error
        /\ nStarts' = nStarts
        /\ nLeaves' = nLeaves
        /\ \A i \in Starts : NoCallIssued(i) ]_vars

\* C11 witness: the state is error and the start_bot request of the failed
\* invocation has settled as a failure.
C11_Witness ==
  /\ state = "error"
  /\ error # None
  /\ \E i \in Starts : starts[i].pc = "error" /\ starts[i].bot = "failed"

\* C12: a failure of the start_bot call changes neither the state nor the
\* error or capacity message nor the invocation's position; the step that
\* fires start_bot is the step of a successful create-room, it moves the
\* state to connecting and issues the join while start_bot is still pending,
\* and the join settles whatever start_bot does.
C12_StartBotFailureIsSilent ==
  [][ \A i \in Starts :
        /\ (starts[i].bot = "pending" /\ starts'[i].bot = "failed") =>
             /\ UNCHANGED << state, error, capacityError >>
             /\ starts'[i].pc = starts[i].pc
             /\ starts'[i].join = starts[i].join
        /\ (starts[i].pc = "create_room" /\ starts'[i].pc = "join") =>
             /\ starts'[i].bot = "pending"
             /\ starts'[i].join # None
             /\ state' = "connecting"
        /\ (starts[i].pc = "join" /\ starts[i].bot # "none") =>
             /\ ENABLED JoinSettles(i, TRUE)
             /\ ENABLED JoinSettles(i, FALSE) ]_vars

\* C12 witness: the session is connected although the start_bot request of
\* the invocation that joined has failed.
C12_Witness ==
  /\ state = "connected"
  /\ error = None
  /\ capacityError = ""
  /\ \E i \in Starts : starts[i].pc = "connected" /\ starts[i].bot = "failed"

\* the start() invocations with a create-room or join call outstanding
InFlight == { i \in Starts : starts[i].pc \in { "create_room", "join" } }

\* C14: at most one start() invocation has a suspending call outstanding;
\* start() is invoked only while the state is configuring, and while an
\* invocation's create-room or join call is outstanding the state is not
\* configuring.
C14_SingleStartInFlight ==
  [][ /\ nStarts' # nStarts => state = "configuring"
      /\ Cardinality(InFlight') <= 1
      /\ InFlight' # {} => state' \in { "requesting_agent", "connecting" } ]_vars

\* C14 witness: a second start() invocation is waiting for create-room after
\* the first one has returned.
C14_Witness ==
  /\ nStarts = 2
  /\ starts[1].pc = "capacity"
  /\ starts[2].pc = "create_room"
  /\ state = "requesting_agent"

\* C15: the startAudioOff value passed to the join call equals the value
\* the orchestrator holds in the step that issues the join.
C15_JoinUsesCurrentAudioSetting ==
  [][ \A i \in Starts :
        (starts[i].pc # "join" /\ starts'[i].pc = "join") =>
          starts'[i].join[1].startAudioOff = startAudioOff' ]_vars

\* C16: the state leaves requesting_agent only in the step in which the
\* create-room call of the outstanding invocation settles; start_bot is
\* fired only in the step of a successful create-room, no join having been
\* issued before, and that same step issues the join and moves the state to
\* connecting with start_bot still pending.
C16_ProvisioningOrder ==
  [][ /\ (state = "requesting_agent" /\ state' # "requesting_agent") =>
           \E i \in Starts :
             /\ starts[i].pc = "create_room"
             /\ starts'[i].pc \in { "join", "capacity" }
      /\ \A i \in Starts :
           (starts[i].bot = "none" /\ starts'[i].bot # "none") =>
             /\ starts[i].pc = "create_room"
             /\ starts[i].join = None
             /\ starts'[i].created # None
             /\ SuccessResponse(starts'[i].created[1])
             /\ starts'[i].bot = "pending"
             /\ starts'[i].join # None
             /\ state' = "connecting" ]_vars

\* C16 witness: the session is connected while the start_bot request of the
\* invocation that joined has not settled.
C16_Witness ==
  /\ state = "connected"
  /\ \E i \in Starts : starts[i].pc = "connected" /\ starts[i].bot = "pending"

\* C17: the initial state is idle when showConfigOptions is set and
\* configuring otherwise; in every reachable state the state is one of idle,
\* configuring, requesting_agent, connecting, connected, error (never started
\* or finished), and requesting_agent only with a backend configured.
C17_ReachableStates ==
  /\ state = (IF showConfigOptions THEN "idle" ELSE "configuring")
  /\ [] /\ state \in { "idle", "configuring", "requesting_agent",
                         "connecting", "connected", "error" }
        /\ state = "requesting_agent" => serverUrl

\* C17 witness: the landing step was shown and passed, and the state is
\* requesting_agent.
C17_Witness ==
  /\ showConfigOptions
  /\ serverUrl
  /\ state = "requesting_agent"

\* C18: the capacity message is non-empty iff a create-room call has failed
\* earlier in the run, and it is never cleared or changed once set.
C18_CapacityMessageSticks ==
  /\ [] ( capacityError # "" <=> \E i \in Starts : starts[i].pc = "capacity" )
  /\ [][ capacityError # "" => capacityError' = capacityError ]_vars

\* C18 witness: after a failed create-room, a successful retry and a leave,
\* the state is back at configuring with the message still set.
C18_Witness ==
  /\ state = "configuring"
  /\ capacityError # ""
  /\ \E i \in Starts : starts[i].pc = "connected"
  /\ \E k \in Leaves : leaves[k].pc = "done"

\* C19: when showConfigOptions is set and the query parameter supplies a
\* (non-empty) room URL that fails validation, the state is idle and the
\* proceed control is disabled in every reachable state.
C19_InvalidQueryUrlBlocks ==
  (showConfigOptions /\ Truthy(roomQs) /\ ~checkRoomUrl(roomQs)) =>
    (state = "idle" /\ NextDisabled)

\* C19 witness: a backend with auto creation is available, the user has
\* entered a validating candidate, and the state is still idle.
C19_Witness ==
  /\ showConfigOptions
  /\ serverUrl
  /\ ~manualRoomEntry
  /\ roomQs = Some(UrlSlash)
  /\ roomUrl = Some(UrlA)
  /\ state = "idle"

\* s is p, then a non-empty part without the character c1, then DailyCo,
\* then a non-empty part without a slash, and nothing else; the first part
\* is also free of the character c2
SplitsAs(s, p, c1, c2) ==
  /\ StartsWith(s, p)
  /\ \E k \in 1..Len(s) :
       LET rest == Drop(s, Len(p))
       IN /\ k <= Len(rest)
          /\ ~HasChar(SubSeq(rest, 1, k), c1)
          /\ ~HasChar(SubSeq(rest, 1, k), c2)
          /\ StartsWith(Drop(rest, k), DailyCo)
          /\ Len(Drop(rest, k + Len(DailyCo))) >= 1
          /\ ~HasChar(Drop(rest, k + Len(DailyCo)), "/")

C20_StartTerminates ==
  /\ (state \in { "requesting_agent", "connecting" })
       ~> (state \in { "configuring", "connected", "error" })
  /\ [][ \A i \in Starts :
           ( /\ starts[i].pc = "none"
             /\ starts'[i].pc # "none"
             /\ ~daily \/ (~Truthy(roomUrl) /\ manualRoomEntry) ) =>
             /\ starts'[i].pc = "returned"
             /\ starts'[i].join = None
             /\ starts'[i].bot = "none"
             /\ UNCHANGED << state, error, capacityError >> ]_vars

\* C20 witness: one start() has returned at its guard and a later one has
\* gone through provisioning and join to connected.
C20_Witness ==
  /\ starts[1].pc = "returned"
  /\ starts[2].pc = "connected"
  /\ serverUrl
  /\ state = "connected"

====
